---- MODULE Spec2Model ----
(***************************************************************************)
(* Model of src/app.py: the PDF size-reduction service.                    *)
(*                                                                         *)
(*   compress_pdf       POST /api/compress   (submit)                      *)
(*   compress_pdf_file  the strategy chain                                 *)
(*   download_file      GET /api/download/<task_id>/<filename> (retrieve)  *)
(*   cleanup_files      removal of a task's files and registry entry       *)
(*                                                                         *)
(* A file is a record [bytes, pages, ok]: its byte sequence, the pages a   *)
(* page-container read of it yields, and whether such a read succeeds.     *)
(* Sizes are in bytes.  A number parsed by float() is a record             *)
(* [kind, num, den]: the rational num/den, or nan, inf, ninf.  What the    *)
(* PDF library writes for a given upload is not determined by the program: *)
(* a request carries the set of sizes its rewritten containers may have.   *)
(***************************************************************************)
EXTENDS Integers, Sequences, FiniteSets, TLC

\* ---------------------------------------------------------------- bounds
MaxTasks == 1        \* submissions (each draws a fresh uuid4)
MaxLen == 3          \* longest uploaded document, in bytes
MaxPages == 4        \* most pages in an uploaded document
MaxRewrite == 3      \* largest size a rewritten page container can have
MaxDownloads == 2    \* retrieve requests

\* ------------------------------------------------------ program constants
KB == 1024
keep_percents_swapped == <<50, 75, 25, 10>>

\* line 235
keep_percents == <<75, 50, 25, 10>>

TaskIds == 1..MaxTasks
DownloadIds == 1..MaxDownloads

\* ------------------------------------------------------------- numbers
Num(n, d) == [kind |-> "num", num |-> n, den |-> d]
NaN == [kind |-> "nan", num |-> 0, den |-> 1]
PosInf == [kind |-> "inf", num |-> 0, den |-> 1]
NegInf == [kind |-> "ninf", num |-> 0, den |-> 1]

Min(a, b) == IF a <= b THEN a ELSE b
Max(a, b) == IF a >= b THEN a ELSE b

\* x * k for a float x and a positive integer k
Times(x, k) == IF x.kind = "num" THEN [x EXCEPT !.num = @ * k] ELSE x

\* n <= x for an integer n and a float x (any comparison with nan is False)
IntLeq(n, x) ==
    CASE x.kind = "num" -> n * x.den <= x.num
      [] x.kind = "inf" -> TRUE
      [] OTHER -> FALSE

\* int(x) raises ValueError on nan and OverflowError on an infinity
IntRaises(x) == x.kind # "num"

\* int(x): truncation toward zero
ToInt(x) == IF x.num >= 0 THEN x.num \div x.den ELSE -((-x.num) \div x.den)

\* ---------------------------------------------------------------- files
RW == 0              \* the bytes a PdfWriter emits, told apart from uploaded bytes

File(b, p, k) == [bytes |-> b, pages |-> p, ok |-> k]

\* s[:k], the Python slice
Slice(s, k) == IF k >= 0 THEN SubSeq(s, 1, Min(k, Len(s)))
               ELSE SubSeq(s, 1, Max(0, Len(s) + k))

\* os.path.getsize
getsize(f) == Len(f.bytes)

\* what is left of a file whose write stopped after n bytes
Partial(f, n) == File(SubSeq(f.bytes, 1, n), <<>>, FALSE)

\* the container PdfWriter.write emits for the pages ps, s bytes long
Written(ps, s) == File([i \in 1..s |-> RW], ps, TRUE)

IsPrefix(a, b) == Len(a) <= Len(b) /\ a = SubSeq(b, 1, Len(a))

Put(f, p, c) == [q \in (DOMAIN f) \cup {p} |-> IF q = p THEN c ELSE f[q]]
Remove(f, p) == [q \in (DOMAIN f) \ {p} |-> f[q]]

\* ---------------------------------------------------------------- paths
\* os.path.join(TEMP_FOLDER, f"{prefix}_{task_id}_{filename}")
Path(prefix, task_id, filename) == <<prefix, task_id, filename>>

\* path.startswith(os.path.join(TEMP_FOLDER, f"{prefix}_{task_id}"));
\* uuid4 strings all have the same length, so no id is a prefix of another
StartsWith(path, prefix, task_id) == SubSeq(path, 1, 2) = <<prefix, task_id>>

\* werkzeug's secure_filename on the names the model uploads
secure_filename(raw) ==
    CASE raw = "a.pdf" -> "a.pdf"
      [] raw = "../a.pdf" -> "a.pdf"
      [] raw = ".." -> ""
      [] OTHER -> raw

VARIABLES
    uploaded_files,  \* the registry: task id -> list of paths
    fs,              \* TEMP_FOLDER: path -> file
    pc,              \* position of each submit request
    req,             \* what each submit request carries
    loc,             \* locals of compress_pdf / compress_pdf_file
    resp,            \* response of each submit request
    log,             \* the strategies each chain logged that it tried
    evicted,         \* the list object of each entry deleted from the registry
    dl,              \* the retrieve requests
    cl               \* the cleanup_files call of each retrieve request's
                     \* delayed_cleanup thread: its position, its loop
                     \* index and the paths whose removal it logged as failed

vars == <<uploaded_files, fs, pc, req, loc, resp, log, evicted, dl, cl>>
submit_vars == <<pc, req, loc, resp, log>>

\* request.files and request.form of a request; NoForm before it arrives
NoForm == [has_file |-> FALSE, filename |-> "", targetSize |-> NaN, sizeUnit |-> ""]

NoReq == [filename |-> "", doc |-> File(<<>>, <<>>, FALSE), target_size_kb |-> NaN,
          sizes |-> {}, form |-> NoForm]
NoLoc == [pages |-> <<>>, keep |-> 1, success |-> FALSE, via |-> "none"]
NoResp == [status |-> 0, error |-> "", original_size |-> 0, compressed_size |-> 0,
           compression_ratio |-> 0]

NoPath == <<>>
NoDownload == [pc |-> "idle", task_id |-> 0, compressed_path |-> NoPath,
               status |-> 0, error |-> "", sent |-> NoPath]

Init ==
    /\ uploaded_files = <<>>
    /\ fs = <<>>
    /\ pc = [t \in TaskIds |-> "idle"]
    /\ req = [t \in TaskIds |-> NoReq]
    /\ loc = [t \in TaskIds |-> NoLoc]
    /\ resp = [t \in TaskIds |-> NoResp]
    /\ log = [t \in TaskIds |-> <<>>]
    /\ evicted = <<>>
    /\ dl = [d \in DownloadIds |-> NoDownload]
    /\ cl = [d \in DownloadIds |-> [pc |-> "off", i |-> 1, errors |-> {}]]

orig_path(t) == Path("orig", t, req[t].filename)
compressed_path(t) == Path("compressed", t, req[t].filename)
target_size_bytes_unscaled(t) == req[t].target_size_kb

\* line 193: target_size_kb * 1024
target_size_bytes(t) == Times(req[t].target_size_kb, KB)

Error(code, msg) == [NoResp EXCEPT !.status = code, !.error = msg]

\* ------------------------------------------------------------- requests
\* request.form.get('targetSize'): absent, not a number, or what float() accepts
Absent == [kind |-> "absent", num |-> 0, den |-> 1]
Text == [kind |-> "text", num |-> 0, den |-> 1]

\* float(v) raises TypeError on None and ValueError on text
FloatRaises(v) == v.kind \in {"absent", "text"}

Pages(n) == [i \in 1..n |-> i]

\* an upload of n bytes, each byte distinct: the i-th byte is i
Bytes(n) == [i \in 1..n |-> i]

\* uploads of every length and page count, parseable or not
Documents ==
    {File(Bytes(n), Pages(p), TRUE) : n \in 0..MaxLen, p \in 0..MaxPages}
        \cup {File(Bytes(n), <<>>, FALSE) : n \in 0..MaxLen}

\* budgets around the document sizes, in half bytes when the unit is KB
TargetSizes ==
    {Num(n, 2 * KB) : n \in (-3)..(2 * MaxLen + 1)}
        \cup {Num(1, 1), Num(-1, 1), NaN, PosInf, NegInf, Absent, Text}

\* every upload with every budget in KB; the smallest budgets in MB, named
\* or by default; requests without a file part or without a filename
ChainRequests ==
    [has_file : {TRUE}, filename : {"a.pdf"}, doc : Documents,
     targetSize : TargetSizes, sizeUnit : {"KB"}, sizes : {1..MaxRewrite}]
        \cup [has_file : {TRUE}, filename : {"a.pdf"}, doc : Documents,
               targetSize : {Num(n, 2 * KB) : n \in (-1)..1},
               sizeUnit : {"MB", "absent"}, sizes : {1..MaxRewrite}]
        \cup [has_file : {FALSE}, filename : {""},
               doc : {File(Bytes(0), Pages(0), TRUE)},
               targetSize : {Num(1, 1), Text}, sizeUnit : {"KB"},
               sizes : {1..MaxRewrite}]
        \cup [has_file : {TRUE}, filename : {""},
               doc : {File(Bytes(MaxLen), Pages(1), TRUE)},
               targetSize : {Num(1, 1), Text}, sizeUnit : {"KB"},
               sizes : {1..MaxRewrite}]

\* the uploads and budgets the chain is run on when its writes may raise
FaultRequests ==
    [has_file : {TRUE}, filename : {"a.pdf"},
     doc : {File(Bytes(n), Pages(p), TRUE) : n \in {1, MaxLen}, p \in {1, MaxPages}}
               \cup {File(Bytes(MaxLen), <<>>, FALSE)},
     targetSize : {Num(n, 2 * KB) : n \in {-2, 0, 3, 2 * MaxLen}} \cup {NaN},
     sizeUnit : {"KB"}, sizes : {1..MaxRewrite}]

\* ------------------------------------------------- compress_pdf, lines 39-57
compress_pdf(t, Requests) ==
    /\ pc[t] = "idle"
    /\ \A u \in TaskIds : u < t => pc[u] # "idle"
    /\ \E r \in Requests :
         LET unit == IF r.sizeUnit = "absent" THEN "MB" ELSE r.sizeUnit
             kb == IF unit = "MB" THEN Times(r.targetSize, KB) ELSE r.targetSize
             form == [has_file |-> r.has_file, filename |-> r.filename,
                      targetSize |-> r.targetSize, sizeUnit |-> r.sizeUnit]
         IN  IF ~r.has_file
               THEN /\ resp' = [resp EXCEPT ![t] = Error(400, "No file part")]
                    /\ pc' = [pc EXCEPT ![t] = "done"]
                    /\ req' = [req EXCEPT ![t].form = form]
             ELSE IF r.filename = ""
               THEN /\ resp' = [resp EXCEPT ![t] = Error(400, "No selected file")]
                    /\ pc' = [pc EXCEPT ![t] = "done"]
                    /\ req' = [req EXCEPT ![t].form = form]
             ELSE IF FloatRaises(r.targetSize)
               THEN /\ resp' = [resp EXCEPT ![t] = Error(400, "Invalid target size")]
                    /\ pc' = [pc EXCEPT ![t] = "done"]
                    /\ req' = [req EXCEPT ![t].form = form]
             ELSE /\ req' = [req EXCEPT ![t] =
                               [filename |-> secure_filename(r.filename),
                                doc |-> r.doc, target_size_kb |-> kb,
                                sizes |-> r.sizes, form |-> form]]
                  /\ pc' = [pc EXCEPT ![t] = "save"]
                  /\ resp' = resp
    /\ UNCHANGED <<uploaded_files, fs, loc, log, evicted, dl, cl>>

\* lines 179-186 for an entry whose list is paths: every path is removed
\* unless its os.remove raises (logged), then the entry is deleted
cleanup_entry(t, paths, faults) ==
    LET owned == {paths[i] : i \in DOMAIN paths}
    IN  /\ \E kept \in (IF faults THEN SUBSET (owned \cap DOMAIN fs) ELSE {{}}) :
             fs' = [q \in (DOMAIN fs) \ (owned \ kept) |-> fs[q]]
        /\ uploaded_files' = Remove(uploaded_files, t)
        /\ evicted' = Put(evicted, t, paths)

\* cleanup_files called from a handler
cleanup_files(t, faults) ==
    IF t \in DOMAIN uploaded_files
      THEN cleanup_entry(t, uploaded_files[t], faults)
      ELSE UNCHANGED <<uploaded_files, fs, evicted>>

\* ------------------------------------------------- compress_pdf, lines 61-66
save_original(t, faults) ==
    /\ pc[t] = "save"
    /\ \/ /\ fs' = Put(fs, orig_path(t), req[t].doc)
          /\ uploaded_files' = Put(uploaded_files, t, <<orig_path(t)>>)
          /\ pc' = [pc EXCEPT ![t] = "chain"]
          /\ resp' = resp
          /\ evicted' = evicted
       \/ /\ faults
          \* file.save raises: nothing written, or a partial file; lines 94-98
          /\ \/ fs' = fs
             \/ \E n \in 0..(getsize(req[t].doc) - 1) :
                  fs' = Put(fs, orig_path(t), Partial(req[t].doc, n))
          /\ UNCHANGED <<uploaded_files, evicted>>
          /\ pc' = [pc EXCEPT ![t] = "done"]
          /\ resp' = [resp EXCEPT ![t] = Error(500, "exception")]
    /\ UNCHANGED <<req, loc, log, dl, cl>>

\* ------------------------------------------ compress_pdf_file, lines 188-291
\* line 273: what the truncation returns
truncation_result == TRUE

Return(t, v) ==
    /\ loc' = [loc EXCEPT ![t].success = IF v = "truncate" THEN truncation_result ELSE TRUE,
                          ![t].via = v]
    /\ pc' = [pc EXCEPT ![t] = "finish"]

Goto(t, label) ==
    /\ pc' = [pc EXCEPT ![t] = label]
    /\ loc' = loc

\* one logger line of the chain: the strategy, its keep_percent (0 when it
\* has none) and the size it produced (-1 when it raised before measuring)
Entry(what, percent, size) == [strategy |-> what, percent |-> percent, size |-> size]

Logged(t, what, percent, size) ==
    log' = [log EXCEPT ![t] = Append(@, Entry(what, percent, size))]

already_small_strict(t) ==
    LET x == target_size_bytes(t)
    IN  IntLeq(getsize(fs[orig_path(t)]), x)
            /\ ~(x.kind = "num" /\ getsize(fs[orig_path(t)]) * x.den = x.num)

\* line 198: original_size <= target_size_bytes
already_small(t) == IntLeq(getsize(fs[orig_path(t)]), target_size_bytes(t))

meets_target_always(t, current_size) == TRUE

\* lines 221 and 249: current_size <= target_size_bytes
meets_target(t, current_size) == IntLeq(current_size, target_size_bytes(t))


\* a write of c to the path p that raises: the open failed, or the write
\* stopped part way
WriteRaises(p, c) ==
    \/ fs' = fs
    \/ \E n \in 0..(getsize(c) - 1) : fs' = Put(fs, p, Partial(c, n))

\* lines 190-202: the size check and the no-op copy
chain_start(t, faults) ==
    /\ pc[t] = "chain"
    /\ IF orig_path(t) \notin DOMAIN fs
         THEN \* os.path.getsize raises
              /\ Goto(t, "outer")
              /\ UNCHANGED <<fs, log>>
         ELSE LET original == fs[orig_path(t)]
              IN  IF already_small(t)
                    THEN /\ Logged(t, "copy", 0, getsize(original))
                         /\ \/ /\ fs' = Put(fs, compressed_path(t), original)
                               /\ Return(t, "copy")
                            \/ /\ faults
                               /\ WriteRaises(compressed_path(t), original)
                               /\ Goto(t, "outer")
                    ELSE /\ Goto(t, "rewrite")
                         /\ UNCHANGED <<fs, log>>
    /\ UNCHANGED <<uploaded_files, req, resp, evicted, dl, cl>>

\* lines 204-225: read every page and write them all back
rewrite(t, faults) ==
    /\ pc[t] = "rewrite"
    /\ IF orig_path(t) \notin DOMAIN fs \/ ~fs[orig_path(t)].ok
         THEN \* PdfReader raises
              /\ Logged(t, "rewrite", 0, -1)
              /\ Goto(t, "reduce")
              /\ fs' = fs
         ELSE LET ps == fs[orig_path(t)].pages
              IN  \/ \E s \in req[t].sizes :
                       /\ fs' = Put(fs, compressed_path(t), Written(ps, s))
                       /\ Logged(t, "rewrite", 0, s)
                       /\ IF meets_target(t, s)
                            THEN Return(t, "rewrite")
                            ELSE Goto(t, "reduce")
                  \/ /\ faults
                     /\ WriteRaises(compressed_path(t), Written(ps, MaxRewrite))
                     /\ Logged(t, "rewrite", 0, -1)
                     /\ Goto(t, "reduce")
    /\ UNCHANGED <<uploaded_files, req, resp, evicted, dl, cl>>

total_pages(t) == Len(loc[t].pages)

\* lines 227-233: open the reader for the page reduction
reduce(t) ==
    /\ pc[t] = "reduce"
    /\ IF orig_path(t) \notin DOMAIN fs \/ ~fs[orig_path(t)].ok
         THEN Goto(t, "truncate")
         ELSE IF Len(fs[orig_path(t)].pages) > 1
                THEN /\ loc' = [loc EXCEPT ![t].pages = fs[orig_path(t)].pages,
                                           ![t].keep = 1]
                     /\ pc' = [pc EXCEPT ![t] = "reduce_iter"]
                ELSE Goto(t, "truncate")
    /\ UNCHANGED <<uploaded_files, fs, req, resp, log, evicted, dl, cl>>

keep_percent(t) == keep_percents[loc[t].keep]

pages_to_keep_unclamped(t) ==
    (total_pages(t) * keep_percent(t)) \div 100

\* line 236
pages_to_keep(t) ==
    Max(1, (total_pages(t) * keep_percent(t)) \div 100)

kept_pages(t) ==
    SubSeq(loc[t].pages, 1, Min(pages_to_keep(t), total_pages(t)))

\* lines 235-251: one round of the loop over keep_percent
reduce_iter(t, faults) ==
    /\ pc[t] = "reduce_iter"
    /\ \/ \E s \in req[t].sizes :
            /\ fs' = Put(fs, compressed_path(t), Written(kept_pages(t), s))
            /\ Logged(t, "keep", keep_percent(t), s)
            /\ IF meets_target(t, s)
                 THEN Return(t, "keep")
                 ELSE IF loc[t].keep < Len(keep_percents)
                        THEN /\ loc' = [loc EXCEPT ![t].keep = @ + 1]
                             /\ pc' = pc
                        ELSE Goto(t, "truncate")
       \/ /\ faults
          /\ WriteRaises(compressed_path(t), Written(kept_pages(t), MaxRewrite))
          /\ Logged(t, "keep", keep_percent(t), -1)
          /\ Goto(t, "truncate")
    /\ UNCHANGED <<uploaded_files, req, resp, evicted, dl, cl>>

bytes_to_keep(t) ==
    Min(getsize(fs[orig_path(t)]), ToInt(target_size_bytes(t)))

truncated_content(t) ==
    LET original == fs[orig_path(t)]
        kept == Slice(original.bytes, bytes_to_keep(t))
    IN  IF kept = original.bytes THEN original ELSE File(kept, <<>>, FALSE)

\* lines 255-275: binary truncation of the original
truncate(t, faults) ==
    /\ pc[t] = "truncate"
    /\ IF orig_path(t) \notin DOMAIN fs \/ IntRaises(target_size_bytes(t))
         THEN \* open(input_path) or int(target_size_bytes) raises
              /\ Logged(t, "truncate", 0, -1)
              /\ Goto(t, "fallback")
              /\ fs' = fs
         ELSE \/ /\ fs' = Put(fs, compressed_path(t), truncated_content(t))
                 /\ Logged(t, "truncate", 0, getsize(truncated_content(t)))
                 /\ Return(t, "truncate")
              \/ /\ faults
                 /\ WriteRaises(compressed_path(t), truncated_content(t))
                 /\ Logged(t, "truncate", 0, -1)
                 /\ Goto(t, "fallback")
    /\ UNCHANGED <<uploaded_files, req, resp, evicted, dl, cl>>

\* lines 277-281: copy the original when the truncation raised
fallback(t, faults) ==
    /\ pc[t] = "fallback"
    /\ IF orig_path(t) \notin DOMAIN fs
         THEN /\ Goto(t, "outer")
              /\ UNCHANGED <<fs, log>>
         ELSE \/ /\ fs' = Put(fs, compressed_path(t), fs[orig_path(t)])
                 /\ Logged(t, "fallback", 0, getsize(fs[orig_path(t)]))
                 /\ Return(t, "fallback")
              \/ /\ faults
                 /\ WriteRaises(compressed_path(t), fs[orig_path(t)])
                 /\ log' = log
                 /\ Goto(t, "outer")
    /\ UNCHANGED <<uploaded_files, req, resp, evicted, dl, cl>>

\* lines 283-291: the outer handler copies the original, ignoring a failure
outer_except(t, faults) ==
    /\ pc[t] = "outer"
    /\ IF orig_path(t) \notin DOMAIN fs
         THEN fs' = fs
         ELSE \/ fs' = Put(fs, compressed_path(t), fs[orig_path(t)])
              \/ /\ faults
                 /\ WriteRaises(compressed_path(t), fs[orig_path(t)])
    /\ Return(t, "outer")
    /\ UNCHANGED <<uploaded_files, req, resp, log, evicted, dl, cl>>

\* round(100 - compressed_size / original_size * 100, 2), in hundredths
compression_ratio(original_size, compressed_size) ==
    IF original_size > 0
      THEN LET n == 10000 * (original_size - compressed_size)
               q == n \div original_size
               r == n % original_size
           IN  IF 2 * r > original_size \/ (2 * r = original_size /\ q % 2 = 1)
                 THEN q + 1 ELSE q
      ELSE 0

\* ------------------------------------------------- compress_pdf, lines 72-98
finish(t, faults) ==
    /\ pc[t] = "finish"
    /\ pc' = [pc EXCEPT ![t] = "done"]
    /\ IF ~loc[t].success
         THEN /\ resp' = [resp EXCEPT ![t] = Error(400, "Failed to compress to target size")]
              /\ UNCHANGED <<uploaded_files, fs, evicted>>
       ELSE IF t \notin DOMAIN uploaded_files
         THEN \* KeyError on the append at line 76; lines 94-98
              /\ resp' = [resp EXCEPT ![t] = Error(500, "exception")]
              /\ cleanup_files(t, faults)
       ELSE IF orig_path(t) \notin DOMAIN fs \/ compressed_path(t) \notin DOMAIN fs
         THEN \* an OSError in getsize after the append; lines 94-98
              /\ resp' = [resp EXCEPT ![t] = Error(500, "exception")]
              /\ cleanup_entry(t, Append(uploaded_files[t], compressed_path(t)), faults)
       ELSE LET o == getsize(fs[orig_path(t)])
                c == getsize(fs[compressed_path(t)])
            IN  /\ uploaded_files' =
                     [uploaded_files EXCEPT ![t] = Append(@, compressed_path(t))]
                /\ UNCHANGED <<fs, evicted>>
                /\ resp' = [resp EXCEPT ![t] =
                              [status |-> 200, error |-> "", original_size |-> o,
                               compressed_size |-> c,
                               compression_ratio |-> compression_ratio(o, c)]]
    /\ UNCHANGED <<req, loc, log, dl, cl>>

\* ------------------------------------------- download_file, lines 100-174
\* the list object uploaded_files[task_id] refers to, or referred to when
\* the entry was deleted
ListOf(t) == IF t \in DOMAIN uploaded_files THEN uploaded_files[t] ELSE evicted[t]

FirstOfList(paths, prefix, task_id) ==
    IF paths = <<>> THEN NoPath ELSE paths[1]

\* lines 108-111 and 119-122: the first path of the list with the prefix
FirstWithPrefix(paths, prefix, task_id) ==
    LET hits == {i \in DOMAIN paths : StartsWith(paths[i], prefix, task_id)}
    IN  IF hits = {} THEN NoPath
        ELSE paths[CHOOSE i \in hits : \A j \in hits : i <= j]

\* the handler leaves its try block: the response, and the finally clause
\* starts the delayed_cleanup thread (lines 164-174)
Respond(d, code, msg) ==
    /\ dl' = [dl EXCEPT ![d].pc = "done", ![d].status = code, ![d].error = msg]
    /\ cl' = [cl EXCEPT ![d].pc = "sleep"]

known_always(task_id) == TRUE

\* line 102: task_id in uploaded_files
known(task_id) == task_id \in DOMAIN uploaded_files

\* lines 101-103: the request arrives for any task id
download_file(d) ==
    /\ dl[d].pc = "idle"
    /\ \A e \in DownloadIds : e < d => dl[e].pc # "idle"
    /\ \E task_id \in TaskIds :
         IF ~known(task_id)
           THEN dl' = [dl EXCEPT ![d].pc = "done", ![d].task_id = task_id,
                                 ![d].status = 404, ![d].error = "File not found"]
           ELSE dl' = [dl EXCEPT ![d].pc = "select", ![d].task_id = task_id]
    /\ UNCHANGED <<uploaded_files, fs, evicted, cl, submit_vars>>

\* lines 105-115: pick the compressed path
select_compressed(d) ==
    /\ dl[d].pc = "select"
    /\ IF dl[d].task_id \notin DOMAIN uploaded_files
         THEN Respond(d, 500, "KeyError")
         ELSE LET found == FirstWithPrefix(uploaded_files[dl[d].task_id],
                                           "compressed", dl[d].task_id)
              IN  IF found = NoPath
                    THEN Respond(d, 404, "Compressed file not found")
                    ELSE /\ dl' = [dl EXCEPT ![d].pc = "sizes",
                                             ![d].compressed_path = found]
                         /\ cl' = cl
    /\ UNCHANGED <<uploaded_files, fs, evicted, submit_vars>>

\* lines 117-138: the sizes that are logged
log_sizes(d) ==
    /\ dl[d].pc = "sizes"
    /\ IF dl[d].task_id \notin DOMAIN uploaded_files
         THEN Respond(d, 500, "KeyError")
         ELSE LET orig == FirstWithPrefix(uploaded_files[dl[d].task_id],
                                          "orig", dl[d].task_id)
              IN  IF orig = NoPath
                    THEN /\ dl' = [dl EXCEPT ![d].pc = "send"]
                         /\ cl' = cl
                  ELSE IF orig \notin DOMAIN fs \/ dl[d].compressed_path \notin DOMAIN fs
                    THEN Respond(d, 500, "FileNotFoundError")
                  ELSE IF getsize(fs[orig]) = 0
                    THEN \* line 131 divides by orig_size
                         Respond(d, 500, "ZeroDivisionError")
                  ELSE /\ dl' = [dl EXCEPT ![d].pc = "send"]
                       /\ cl' = cl
    /\ UNCHANGED <<uploaded_files, fs, evicted, submit_vars>>

\* lines 140-158: send_file opens the compressed path and the response
\* streams it
send_file(d) ==
    /\ dl[d].pc = "send"
    /\ IF dl[d].compressed_path \notin DOMAIN fs
         THEN Respond(d, 500, "FileNotFoundError")
         ELSE /\ dl' = [dl EXCEPT ![d].pc = "streaming", ![d].status = 200,
                                  ![d].sent = dl[d].compressed_path]
              /\ cl' = [cl EXCEPT ![d].pc = "sleep"]
    /\ UNCHANGED <<uploaded_files, fs, evicted, submit_vars>>

\* the transfer of the response body ends
stream_done(d) ==
    /\ dl[d].pc = "streaming"
    /\ dl' = [dl EXCEPT ![d].pc = "done"]
    /\ UNCHANGED <<uploaded_files, fs, evicted, cl, submit_vars>>

\* ---------------------- delayed_cleanup and cleanup_files, lines 166-186
\* line 168 and line 178: the sleep ends, then the membership test
cleanup_check(d) ==
    /\ cl[d].pc = "sleep"
    /\ cl' = [cl EXCEPT ![d].pc = IF dl[d].task_id \in DOMAIN uploaded_files
                                     THEN "lookup" ELSE "done"]
    /\ UNCHANGED <<uploaded_files, fs, evicted, dl, submit_vars>>

\* line 179: uploaded_files[task_id] is looked up for the loop
cleanup_lookup(d) ==
    /\ cl[d].pc = "lookup"
    /\ cl' = [cl EXCEPT ![d].pc = IF dl[d].task_id \in DOMAIN uploaded_files
                                     THEN "remove" ELSE "raised",
                        ![d].i = 1]
    /\ UNCHANGED <<uploaded_files, fs, evicted, dl, submit_vars>>

cleanup_remove_skips(d, faults) ==
    /\ cl[d].pc = "remove"
    /\ cl' = [cl EXCEPT ![d].pc = IF cl[d].i > Len(ListOf(dl[d].task_id))
                                    THEN "del" ELSE @,
                        ![d].i = IF cl[d].i > Len(ListOf(dl[d].task_id))
                                   THEN @ ELSE @ + 1]
    /\ UNCHANGED <<uploaded_files, fs, evicted, dl, submit_vars>>

\* lines 179-184: one round of the loop over the list; an os.remove that
\* raises is logged and the loop goes on
cleanup_remove(d, faults) ==
    /\ cl[d].pc = "remove"
    /\ LET paths == ListOf(dl[d].task_id)
       IN  IF cl[d].i > Len(paths)
             THEN /\ cl' = [cl EXCEPT ![d].pc = "del"]
                  /\ fs' = fs
             ELSE \/ /\ fs' = Remove(fs, paths[cl[d].i])
                     /\ cl' = [cl EXCEPT ![d].i = @ + 1]
                  \/ /\ faults
                     /\ paths[cl[d].i] \in DOMAIN fs
                     /\ fs' = fs
                     /\ cl' = [cl EXCEPT ![d].i = @ + 1,
                                         ![d].errors = @ \cup {paths[cl[d].i]}]
    /\ UNCHANGED <<uploaded_files, evicted, dl, submit_vars>>

cleanup_del_keeps(d) ==
    /\ cl[d].pc = "del"
    /\ cl' = [cl EXCEPT ![d].pc = "done"]
    /\ UNCHANGED <<uploaded_files, evicted, fs, dl, submit_vars>>

\* line 186: del uploaded_files[task_id]
cleanup_del(d) ==
    /\ cl[d].pc = "del"
    /\ IF dl[d].task_id \in DOMAIN uploaded_files
         THEN /\ uploaded_files' = Remove(uploaded_files, dl[d].task_id)
              /\ evicted' = Put(evicted, dl[d].task_id, uploaded_files[dl[d].task_id])
              /\ cl' = [cl EXCEPT ![d].pc = "done"]
         ELSE /\ cl' = [cl EXCEPT ![d].pc = "raised"]
              /\ UNCHANGED <<uploaded_files, evicted>>
    /\ UNCHANGED <<fs, dl, submit_vars>>

\* line 176: cleanup_files(task_id) is called for any id while no other
\* call of it is running; its steps are those of a delayed_cleanup thread
\* whose sleep is over
call_cleanup(d) ==
    /\ cl[d].pc = "off"
    /\ \A e \in DownloadIds : e < d => cl[e].pc # "off"
    /\ \A e \in DownloadIds : cl[e].pc \in {"off", "done", "raised"}
    /\ \E task_id \in TaskIds : dl' = [dl EXCEPT ![d].task_id = task_id]
    /\ cl' = [cl EXCEPT ![d].pc = "sleep"]
    /\ UNCHANGED <<uploaded_files, fs, evicted, submit_vars>>

\* ------------------------------------------------------ the whole service
RegistryLen == Max(MaxLen, MaxRewrite)

\* the submissions of the service model.  The first is a two-page upload
\* whose rewrites are all too large for the budget; the later ones are an
\* empty upload under a name that sanitizes to "", and rejected requests
RegistryRequests(t) ==
    IF t = 1
      THEN [has_file : {TRUE}, filename : {"a.pdf"},
            doc : {File(Bytes(RegistryLen), Pages(2), TRUE)},
            targetSize : {Num(2 * MaxRewrite - 1, 2 * KB)}, sizeUnit : {"KB"},
            sizes : {{MaxRewrite}}]
      ELSE [has_file : {TRUE}, filename : {".."},
            doc : {File(Bytes(0), Pages(0), TRUE)},
            targetSize : {Num(1, 1), Text}, sizeUnit : {"absent"},
            sizes : {{MaxRewrite}}]
               \cup [has_file : {FALSE}, filename : {""},
                      doc : {File(Bytes(0), Pages(0), TRUE)},
                      targetSize : {Absent}, sizeUnit : {"absent"},
                      sizes : {{MaxRewrite}}]

Next ==
    \/ \E t \in TaskIds :
          \/ compress_pdf(t, RegistryRequests(t))
          \/ save_original(t, FALSE)
          \/ chain_start(t, FALSE)
          \/ rewrite(t, FALSE)
          \/ reduce(t)
          \/ reduce_iter(t, FALSE)
          \/ truncate(t, FALSE)
          \/ fallback(t, FALSE)
          \/ outer_except(t, FALSE)
          \/ finish(t, FALSE)
    \/ \E d \in DownloadIds :
          \/ download_file(d)
          \/ select_compressed(d)
          \/ log_sizes(d)
          \/ send_file(d)
          \/ stream_done(d)
          \/ cleanup_check(d)
          \/ cleanup_lookup(d)
          \/ cleanup_remove(d, FALSE)
          \/ cleanup_del(d)

Spec == Init /\ [][Next]_vars

\* ---------------------------------------------- the chain, one submission
NextChain ==
    \/ compress_pdf(1, ChainRequests)
    \/ save_original(1, FALSE)
    \/ chain_start(1, FALSE)
    \/ rewrite(1, FALSE)
    \/ reduce(1)
    \/ reduce_iter(1, FALSE)
    \/ truncate(1, FALSE)
    \/ fallback(1, FALSE)
    \/ finish(1, FALSE)

SpecChain == Init /\ [][NextChain]_vars

\* the chain when writes to the output location may raise
NextChainFaults ==
    \/ compress_pdf(1, FaultRequests)
    \/ save_original(1, TRUE)
    \/ chain_start(1, TRUE)
    \/ rewrite(1, TRUE)
    \/ reduce(1)
    \/ reduce_iter(1, TRUE)
    \/ truncate(1, TRUE)
    \/ fallback(1, TRUE)
    \/ outer_except(1, TRUE)
    \/ finish(1, TRUE)

SpecChainFaults == Init /\ [][NextChainFaults]_vars

\* ------------------------------ the service on uploads empty and not
\* the upload of the service model and an empty upload, both named a.pdf
SizedRequests ==
    [has_file : {TRUE}, filename : {"a.pdf"},
     doc : {File(Bytes(n), Pages(Min(n, 2)), TRUE) : n \in {0, RegistryLen}},
     targetSize : {Num(2 * MaxRewrite - 1, 2 * KB)}, sizeUnit : {"KB"},
     sizes : {{MaxRewrite}}]

NextSized ==
    \/ \E t \in TaskIds :
          \/ compress_pdf(t, SizedRequests)
          \/ save_original(t, FALSE)
          \/ chain_start(t, FALSE)
          \/ rewrite(t, FALSE)
          \/ reduce(t)
          \/ reduce_iter(t, FALSE)
          \/ truncate(t, FALSE)
          \/ fallback(t, FALSE)
          \/ outer_except(t, FALSE)
          \/ finish(t, FALSE)
    \/ \E d \in DownloadIds :
          \/ download_file(d)
          \/ select_compressed(d)
          \/ log_sizes(d)
          \/ send_file(d)
          \/ stream_done(d)
          \/ cleanup_check(d)
          \/ cleanup_lookup(d)
          \/ cleanup_remove(d, FALSE)
          \/ cleanup_del(d)

SpecSized == Init /\ [][NextSized]_vars

\* ------------------------- cleanup_files called sequentially, between
\* submissions, on a file system whose removals may raise
\* a two-page upload and an empty one, with a budget they fit, one the first
\* is truncated to, and one that makes the truncation raise
CleanupRequests ==
    [has_file : {TRUE}, filename : {"a.pdf"},
     doc : {File(Bytes(RegistryLen), Pages(2), TRUE), File(Bytes(0), Pages(0), TRUE)},
     targetSize : {Num(2 * RegistryLen, 2 * KB), Num(2 * MaxRewrite - 1, 2 * KB), NaN},
     sizeUnit : {"KB"}, sizes : {{MaxRewrite}}]

Calling == \E d \in DownloadIds : cl[d].pc \notin {"off", "done", "raised"}
Submitting == \E t \in TaskIds : pc[t] \notin {"idle", "done"}

NextCleanup ==
    \/ \E t \in TaskIds :
          /\ ~Calling
          /\ \/ compress_pdf(t, CleanupRequests)
             \/ save_original(t, FALSE)
             \/ chain_start(t, FALSE)
             \/ rewrite(t, FALSE)
             \/ reduce(t)
             \/ reduce_iter(t, FALSE)
             \/ truncate(t, FALSE)
             \/ fallback(t, FALSE)
             \/ finish(t, FALSE)
    \/ \E d \in DownloadIds :
          \/ ~Submitting /\ call_cleanup(d)
          \/ cleanup_check(d)
          \/ cleanup_lookup(d)
          \/ cleanup_remove(d, TRUE)
          \/ cleanup_del(d)

SpecCleanup == Init /\ [][NextCleanup]_vars

\* ======================================================================
\* Properties of the strategy chain
\* ======================================================================
Budget(t) == target_size_bytes(t)
Uploaded(t) == req[t].doc
HasOutput(t) == compressed_path(t) \in DOMAIN fs
Output(t) == fs[compressed_path(t)]
ChainReturned(t) == pc[t] = "finish"
LastLogged(t) == log[t][Len(log[t])]

C2_NoOpCopy ==
    \A t \in TaskIds :
        (ChainReturned(t) /\ IntLeq(getsize(Uploaded(t)), Budget(t))) =>
            /\ HasOutput(t)
            /\ Output(t) = Uploaded(t)
            /\ loc[t].success
            /\ log[t] = <<Entry("copy", 0, getsize(Uploaded(t)))>>

\* the copy of a non-empty document exactly as large as the budget
C2_Witness ==
    \E t \in TaskIds :
        /\ ChainReturned(t)
        /\ loc[t].via = "copy"
        /\ getsize(Uploaded(t)) > 0
        /\ Budget(t).kind = "num"
        /\ getsize(Uploaded(t)) * Budget(t).den = Budget(t).num

\* C3 (as claimed): the chain never returns an empty output for a non-empty
\* document, whatever the budget.
C3_NeverEmpty ==
    \A t \in TaskIds :
        (ChainReturned(t) /\ getsize(Uploaded(t)) > 0) =>
            HasOutput(t) /\ getsize(Output(t)) > 0

\* C4 (as claimed): whatever strategies raise, the chain returns normally
\* with success, an output file exists, and it is the unchanged original when
\* every strategy raised.
C4_AlwaysAnOutput ==
    \A t \in TaskIds :
        ChainReturned(t) =>
            /\ loc[t].success
            /\ HasOutput(t)
            /\ (\A i \in DOMAIN log[t] : log[t][i].size = -1) => Output(t) = Uploaded(t)

\* C5 (as claimed): an output the truncation produced is a leading prefix of
\* the original bytes, min(len(document), target_bytes) long (target_bytes
\* in whole bytes, as int() resolves it).
C5_TruncationLength ==
    \A t \in TaskIds :
        (ChainReturned(t) /\ loc[t].via = "truncate") =>
            /\ HasOutput(t)
            /\ IsPrefix(Output(t).bytes, Uploaded(t).bytes)
            /\ getsize(Output(t)) = Min(getsize(Uploaded(t)), ToInt(Budget(t)))

\* the fixed order of the attempts on the document d
CanonicalOrder(d) ==
    <<[strategy |-> "rewrite", percent |-> 0]>>
        \o (IF d.ok /\ Len(d.pages) > 1
              THEN <<[strategy |-> "keep", percent |-> 75],
                     [strategy |-> "keep", percent |-> 50],
                     [strategy |-> "keep", percent |-> 25],
                     [strategy |-> "keep", percent |-> 10]>>
              ELSE <<>>)
        \o <<[strategy |-> "truncate", percent |-> 0],
             [strategy |-> "fallback", percent |-> 0]>>

Attempts(t) ==
    [i \in DOMAIN log[t] |->
        [strategy |-> log[t][i].strategy, percent |-> log[t][i].percent]]

MetBudget(t, e) == e.size >= 0 /\ IntLeq(e.size, Budget(t))

\* C6: the attempts come in the order copy, rewrite, 75%, 50%, 25%, 10%,
\* truncation; each is made only after every earlier one failed to meet the
\* budget or raised; the chain stops at the first output that meets it.
C6_FixedOrder ==
    \A t \in TaskIds :
        /\ \/ IsPrefix(Attempts(t), CanonicalOrder(Uploaded(t)))
           \/ /\ Attempts(t) = <<[strategy |-> "copy", percent |-> 0]>>
              /\ IntLeq(getsize(Uploaded(t)), Budget(t))
        /\ \A i \in 1..(Len(log[t]) - 1) : ~MetBudget(t, log[t][i])
        /\ (pc[t] \in {"rewrite", "reduce", "reduce_iter", "truncate", "fallback"}
                /\ Len(log[t]) > 0) => ~MetBudget(t, LastLogged(t))
        /\ pc[t] \in {"rewrite", "reduce", "reduce_iter", "truncate", "fallback"} =>
               ~IntLeq(getsize(Uploaded(t)), Budget(t))
        /\ ChainReturned(t) =>
               /\ LastLogged(t).strategy = loc[t].via
               /\ loc[t].via \in {"rewrite", "keep"} => MetBudget(t, LastLogged(t))

\* the chain accepted the 25% page reduction after the rewrite, 75% and 50%
\* were too large
C6_Witness ==
    \E t \in TaskIds :
        /\ ChainReturned(t)
        /\ Len(log[t]) = 4
        /\ LastLogged(t).percent = 25
        /\ MetBudget(t, LastLogged(t))

\* C7 (as claimed): when neither the copy, the rewrite nor a page reduction
\* meets the budget, the chain delivers a best attempt and reports
\* succeeded = false.
C7_BestAttemptNotSucceeded ==
    \A t \in TaskIds :
        (ChainReturned(t) /\ loc[t].via \notin {"copy", "rewrite", "keep"}) =>
            HasOutput(t) /\ ~loc[t].success

\* C8: each page reduction of a document of N > 1 pages keeps exactly the
\* leading max(1, floor(N * p / 100)) pages: a non-empty prefix, at most N.
C8_LeadingPages ==
    \A t \in TaskIds :
        (/\ pc[t] \in {"reduce_iter", "truncate", "finish"}
         /\ Len(log[t]) > 0
         /\ LastLogged(t).strategy = "keep"
         /\ LastLogged(t).size >= 0) =>
            LET N == Len(Uploaded(t).pages)
                p == LastLogged(t).percent
                k == IF (N * p) \div 100 >= 1 THEN (N * p) \div 100 ELSE 1
            IN  /\ N > 1
                /\ p \in {75, 50, 25, 10}
                /\ HasOutput(t)
                /\ Output(t).pages = [i \in 1..k |-> Uploaded(t).pages[i]]
                /\ Len(Output(t).pages) >= 1
                /\ Len(Output(t).pages) <= N

\* the 10% reduction of the largest document, where the floor is 0 pages
C8_Witness ==
    \E t \in TaskIds :
        /\ pc[t] \in {"truncate", "finish"}
        /\ Len(log[t]) > 0
        /\ LastLogged(t).strategy = "keep"
        /\ LastLogged(t).percent = 10
        /\ LastLogged(t).size >= 0
        /\ Len(Uploaded(t).pages) = MaxPages
        /\ Len(Output(t).pages) = 1

\* ======================================================================
\* Properties of the registry
\* ======================================================================
\* C9: a retrieve resolves to, and streams, the path recorded as the task's
\* derived artifact, never the task's original path.
C9_ServesDerivedPath ==
    \A d \in DownloadIds :
        LET t == dl[d].task_id
        IN  /\ dl[d].pc \in {"sizes", "send", "streaming"} =>
                   dl[d].compressed_path # NoPath
            /\ dl[d].compressed_path # NoPath =>
                   /\ dl[d].compressed_path = compressed_path(t)
                   /\ dl[d].compressed_path # orig_path(t)
                   /\ dl[d].compressed_path \in
                          {ListOf(t)[i] : i \in 2..Len(ListOf(t))}
            /\ dl[d].sent # NoPath =>
                   /\ dl[d].sent = compressed_path(t)
                   /\ dl[d].sent # orig_path(t)

\* a retrieve is streaming the derived file of a task that owns both files
C9_Witness ==
    \E d \in DownloadIds :
        /\ dl[d].pc = "streaming"
        /\ dl[d].status = 200
        /\ dl[d].task_id \in DOMAIN uploaded_files
        /\ Len(uploaded_files[dl[d].task_id]) = 2
        /\ dl[d].sent \in DOMAIN fs

HasDerived(paths) == \E i \in DOMAIN paths : paths[i][1] = "compressed"

\* C10: a retrieve of an id that is not in the registry answers 404 (not
\* found); a retrieve that finds the entry without a derived path answers 404
\* (artifact missing); neither streams a file.
C10_NotFound ==
    /\ [](\A d \in DownloadIds : dl[d].status = 404 =>
              dl[d].pc = "done" /\ dl[d].sent = NoPath)
    /\ [][\A d \in DownloadIds :
            /\ (dl[d].pc = "idle" /\ dl'[d].pc # "idle"
                    /\ dl'[d].task_id \notin DOMAIN uploaded_files) =>
                   /\ dl'[d].pc = "done"
                   /\ dl'[d].status = 404
                   /\ dl'[d].error = "File not found"
            /\ (dl[d].pc = "select" /\ dl'[d].pc # "select"
                    /\ dl[d].task_id \in DOMAIN uploaded_files
                    /\ ~HasDerived(uploaded_files[dl[d].task_id])) =>
                   /\ dl'[d].pc = "done"
                   /\ dl'[d].status = 404
                   /\ dl'[d].error = "Compressed file not found"]_vars

\* one retrieve answered not found, another artifact missing
C10_Witness ==
    \E d, e \in DownloadIds :
        /\ dl[d].status = 404 /\ dl[d].error = "File not found"
        /\ dl[e].status = 404 /\ dl[e].error = "Compressed file not found"

\* C11 (as claimed): the derived artifact of a completed task is served exactly
\* once: once a retrieve of a task id has returned it, no other retrieve of
\* that id returns it, inside the cleanup grace delay or after it.
C11_ServedOnce ==
    \A d, e \in DownloadIds :
        (d # e /\ dl[d].status = 200 /\ dl[e].status = 200) =>
            dl[d].task_id # dl[e].task_id

\* C12: when a retrieve of a task has returned the artifact and the cleanup
\* it scheduled has run, a retrieve of the same id that arrives afterwards is
\* answered 404 at once and carries no file.
C12_GoneAfterCleanup ==
    [][\A d, e \in DownloadIds :
          (/\ d # e
           /\ dl[d].status = 200
           /\ cl[d].pc \in {"done", "raised"}
           /\ dl[e].pc = "idle"
           /\ dl'[e].pc # "idle"
           /\ dl'[e].task_id = dl[d].task_id) =>
              /\ dl'[e].pc = "done"
              /\ dl'[e].status = 404
              /\ dl'[e].sent = NoPath]_vars

\* the first retrieve streamed the artifact and its cleanup deleted the
\* entry; the second retrieve of the id, which arrived later, got 404
C12_Witness ==
    \E d, e \in DownloadIds :
        /\ d < e
        /\ dl[d].status = 200
        /\ cl[d].pc = "done"
        /\ dl[e].task_id = dl[d].task_id
        /\ dl[e].pc = "done"
        /\ dl[e].status = 404
        /\ dl[e].error = "File not found"
        /\ dl[e].sent = NoPath

\* ======================================================================
\* Properties of cleanup_files and of submit's error handling
\* ======================================================================
\* the list of the entry the call d has just deleted
Deleted(d) == evicted'[dl[d].task_id]

\* the call d finds its id in the registry and returns after the deletion
FirstCall(d) == cl[d].pc = "del" /\ cl'[d].pc = "done"

\* the call d finds its id unknown and returns
NoOpCall(d) == cl[d].pc = "sleep" /\ dl[d].task_id \notin DOMAIN uploaded_files

\* C13 (as claimed): cleanup_files called sequentially never raises; after
\* the first call on an id the task has no registry entry and none of its
\* files exist; a further call on the id changes nothing.
C13_Idempotent ==
    [][\A d \in DownloadIds :
          /\ cl'[d].pc # "raised"
          /\ FirstCall(d) =>
                 /\ dl[d].task_id \notin DOMAIN uploaded_files'
                 /\ \A i \in DOMAIN Deleted(d) : Deleted(d)[i] \notin DOMAIN fs'
          /\ (NoOpCall(d) /\ cl'[d] # cl[d]) =>
                 /\ cl'[d].pc = "done"
                 /\ uploaded_files' = uploaded_files
                 /\ fs' = fs]_vars

\* C13 (amended): cleanup_files called sequentially never raises; after the
\* first call on an id the task has no registry entry, and each path recorded
\* in the entry either no longer exists or its removal raised and was logged
\* by that call; a further call on the id changes nothing.
C13_IdempotentUnlessLogged ==
    [][\A d \in DownloadIds :
          /\ cl'[d].pc # "raised"
          /\ FirstCall(d) =>
                 /\ dl[d].task_id \notin DOMAIN uploaded_files'
                 /\ \A i \in DOMAIN Deleted(d) :
                        \/ Deleted(d)[i] \notin DOMAIN fs'
                        \/ Deleted(d)[i] \in cl'[d].errors
                 /\ cl'[d].errors \subseteq DOMAIN fs'
          /\ (NoOpCall(d) /\ cl'[d] # cl[d]) =>
                 /\ cl'[d].pc = "done"
                 /\ uploaded_files' = uploaded_files
                 /\ fs' = fs]_vars

\* a first call removed the original, logged the failed removal of the
\* derived file and deleted the entry; a second call on the id returned
C13_Witness ==
    \E d, e \in DownloadIds :
        /\ d < e
        /\ dl[d].task_id = dl[e].task_id
        /\ cl[d].pc = "done" /\ cl[e].pc = "done"
        /\ dl[d].task_id \in DOMAIN evicted
        /\ dl[d].task_id \notin DOMAIN uploaded_files
        /\ orig_path(dl[d].task_id) \notin DOMAIN fs
        /\ cl[d].errors = {compressed_path(dl[d].task_id)}
        /\ cl[e].errors = {}

\* the files of the task t on disk
FilesOf(t) == {p \in DOMAIN fs : p[2] = t}

\* C14 (as claimed): a submission that ends in an error, raised at any step
\* after the task id was created (the save of the original included), leaves
\* no file of the task on disk and no entry of the task in the registry.
C14_FailedSubmitLeavesNothing ==
    \A t \in TaskIds :
        (pc[t] = "done" /\ resp[t].status = 500) =>
            /\ t \notin DOMAIN uploaded_files
            /\ FilesOf(t) = {}

\* ======================================================================
\* Properties of submit's input handling
\* ======================================================================
Form(t) == req[t].form
Arrived(t) == pc[t] # "idle"

\* what the form's targetSize holds is a positive number
Positive(v) == v.kind = "inf" \/ (v.kind = "num" /\ v.num > 0)

\* C15 (as claimed): a submission without a document, with an empty
\* filename, or with a target that is not a positive number (text, absent,
\* zero, negative) is answered 400, with no file of it persisted and no
\* registry entry created.
C15_RejectsBadInput ==
    \A t \in TaskIds :
        (/\ Arrived(t)
         /\ \/ ~Form(t).has_file
            \/ Form(t).filename = ""
            \/ ~Positive(Form(t).targetSize)) =>
            /\ pc[t] = "done"
            /\ resp[t].status = 400
            /\ t \notin DOMAIN uploaded_files
            /\ FilesOf(t) = {}

\* bytes per unit of the form's sizeUnit: KB, or MB (also when absent)
UnitBytes(u) == IF u = "KB" THEN 1024 ELSE 1024 * 1024

\* the form's value times factor, as a float
Scaled(v, factor) ==
    IF v.kind = "num" THEN Num(v.num * factor, v.den) ELSE v

\* x = y for floats; both are fractions with positive denominators
SameNumber(x, y) ==
    /\ x.kind = y.kind
    /\ x.kind = "num" =>
           IF x.den = y.den THEN x.num = y.num
           ELSE x.num * y.den = y.num * x.den

Admitted(t) == Arrived(t) /\ ~(pc[t] = "done" /\ resp[t].status = 400)

\* C16: the budget the chain compares sizes against is value * 1024 bytes
\* for the unit KB and value * 1024 * 1024 bytes for the unit MB or no unit;
\* it is fixed when the request is admitted; a document no larger than it
\* comes back as the no-op copy, reported with compression ratio 0.
C16_UnitResolution ==
    /\ [](\A t \in TaskIds :
              Admitted(t) =>
                  LET budget == Scaled(Form(t).targetSize, UnitBytes(Form(t).sizeUnit))
                      under == IntLeq(getsize(Uploaded(t)), budget)
                  IN  /\ SameNumber(target_size_bytes(t), budget)
                      /\ ChainReturned(t) => (under <=> loc[t].via = "copy")
                      /\ (under /\ resp[t].status = 200) =>
                             /\ resp[t].compressed_size = getsize(Uploaded(t))
                             /\ resp[t].compression_ratio = 0)
    /\ [][\A t \in TaskIds : Arrived(t) => req'[t] = req[t]]_vars

\* a document of MaxLen bytes submitted with value 1/2048 and unit MB, 512
\* bytes, came back unchanged with ratio 0
C16_Witness ==
    \E t \in TaskIds :
        /\ resp[t].status = 200
        /\ Form(t).sizeUnit = "MB"
        /\ Form(t).targetSize = Num(1, 2 * KB)
        /\ getsize(Uploaded(t)) = MaxLen
        /\ loc[t].via = "copy"
        /\ resp[t].compressed_size = MaxLen
        /\ resp[t].compression_ratio = 0

\* ======================================================================
\* Properties of retrieval running next to the deferred cleanups
\* ======================================================================
\* C17 (as claimed): in no interleaving of retrieves and deferred cleanups of
\* a task is the derived file removed while a retrieve that started streaming
\* it is still in progress.
C17_NoRemovalMidStream ==
    \A d \in DownloadIds :
        dl[d].pc = "streaming" => dl[d].sent \in DOMAIN fs

\* C18 (as claimed): when several cleanup_files calls of one task run
\* concurrently, as the delayed cleanups of several retrieves of a submitted
\* task do, none raises, whatever the interleaving of their membership
\* checks, removals and deletions, and the task ends without a registry entry.
C18_ConcurrentCleanupsNeverRaise ==
    \A d \in DownloadIds :
        (cl[d].pc \in {"done", "raised"} /\ resp[dl[d].task_id].status = 200) =>
            /\ cl[d].pc # "raised"
            /\ dl[d].task_id \notin DOMAIN uploaded_files

\* every request that arrived has been answered and every thread has ended
Quiescent ==
    /\ \A t \in TaskIds : pc[t] \in {"idle", "done"}
    /\ \A d \in DownloadIds :
           /\ dl[d].pc \in {"idle", "done"}
           /\ cl[d].pc \in {"off", "done", "raised"}

\* the retrieve d found its id in the registry at line 102
FoundEntry(d) == dl[d].pc # "idle" /\ ~(dl[d].status = 404 /\ dl[d].error = "File not found")

\* C19 (as claimed): every retrieve of an id that is in the registry, whether
\* it streams, finds no derived path or fails, is followed by the eviction
\* of the entry and the removal of every file of the task, original and
\* derived: once all requests and threads have ended, nothing of it is left.
C19_RetrieveLeadsToCleanup ==
    Quiescent =>
        \A d \in DownloadIds :
            FoundEntry(d) =>
                /\ dl[d].task_id \notin DOMAIN uploaded_files
                /\ FilesOf(dl[d].task_id) = {}

\* the submission of t was answered with its success result
Submitted(t) == pc[t] = "done" /\ resp[t].status = 200

\* no retrieve other than e has been invoked for the task id t
FirstRetrieve(e, t) ==
    \A d \in DownloadIds : d # e => (dl[d].pc = "idle" \/ dl[d].task_id # t)

\* C20 (as claimed): the registry entry and the derived file of a
\* successfully submitted task stay until a retrieve of its id is invoked,
\* and the first retrieve of the id finds the entry, finds the derived path
\* and streams the derived file.
C20_FirstRetrieveStreams ==
    /\ [](\A t \in TaskIds :
              (Submitted(t) /\ FirstRetrieve(0, t)) =>
                  /\ t \in DOMAIN uploaded_files
                  /\ HasDerived(uploaded_files[t])
                  /\ compressed_path(t) \in DOMAIN fs)
    /\ [][\A e \in DownloadIds :
            LET t == dl'[e].task_id
            IN  (/\ dl'[e] # dl[e]
                 /\ dl[e].pc \in {"idle", "select", "sizes", "send"}
                 /\ t \in TaskIds
                 /\ Submitted(t)
                 /\ FirstRetrieve(e, t)) =>
                    CASE dl[e].pc = "idle" -> dl'[e].pc = "select"
                      [] dl[e].pc = "select" ->
                             /\ dl'[e].pc = "sizes"
                             /\ dl'[e].compressed_path = compressed_path(t)
                      [] dl[e].pc = "sizes" -> dl'[e].pc = "send"
                      [] dl[e].pc = "send" ->
                             /\ dl'[e].status = 200
                             /\ dl'[e].sent = compressed_path(t)]_vars

====
